---- MODULE Spec2Model ----
(***************************************************************************)
(* A model of JULEA's semantics descriptor (src/lib/jsemantics.c) and of   *)
(* its store iterator (src/lib/jstore-iterator.c).                         *)
(*                                                                         *)
(* Three specifications share the variables:                               *)
(*   Spec      one caller drives one descriptor through the public calls,  *)
(*             each call one step;                                         *)
(*   SpecConc  several threads call j_semantics_ref, j_semantics_unref and *)
(*             j_semantics_set on one descriptor, one statement per step;  *)
(*   SpecIter  several threads each create, use and free a store iterator  *)
(*             over one store, one statement per step.                     *)
(***************************************************************************)
EXTENDS Integers, Sequences, FiniteSets, TLC

(***************************************************************************)
(* Bounds of the model.                                                    *)
(***************************************************************************)
\* j_semantics_ref is called at most MaxRefs times on one object.
MaxRefs == 2
\* Threads of SpecConc.
NThreads == 2
\* SpecConc: j_semantics_ref is called at most MaxShares times on one object.
MaxShares == 3
\* SpecIter: the threads that each drive one store iterator.
NIters == 2
\* SpecIter: the connection handles of the metadata pool.
NConns == 2
\* SpecIter: the collections a client may create in the store.
NColls == 2
\* SpecIter: the JStore's reference count before any iterator exists.
StoreBase == 1

(***************************************************************************)
(* The enumerators of jsemantics.h that jsemantics.c names.  The header is  *)
(* not among the sources; each enumeration is numbered from 0 as C numbers *)
(* enumerators, and nothing below depends on more than the enumerators of  *)
(* one enumeration being distinct.                                         *)
(***************************************************************************)
J_SEMANTICS_TEMPLATE_DEFAULT == 0
J_SEMANTICS_TEMPLATE_POSIX == 1
J_SEMANTICS_TEMPLATE_CHECKPOINT == 2

J_SEMANTICS_ATOMICITY == 0
J_SEMANTICS_CONCURRENCY == 1
J_SEMANTICS_CONSISTENCY == 2
J_SEMANTICS_PERSISTENCY == 3
J_SEMANTICS_SAFETY == 4
J_SEMANTICS_SECURITY == 5

J_SEMANTICS_ATOMICITY_BATCH == 0
J_SEMANTICS_ATOMICITY_OPERATION == 1
J_SEMANTICS_ATOMICITY_NONE == 2

J_SEMANTICS_CONCURRENCY_OVERLAPPING == 0
J_SEMANTICS_CONCURRENCY_NON_OVERLAPPING == 1
J_SEMANTICS_CONCURRENCY_NONE == 2

J_SEMANTICS_CONSISTENCY_IMMEDIATE == 0
J_SEMANTICS_CONSISTENCY_EVENTUAL == 1
J_SEMANTICS_CONSISTENCY_NONE == 2

J_SEMANTICS_PERSISTENCY_IMMEDIATE == 0
J_SEMANTICS_PERSISTENCY_EVENTUAL == 1
J_SEMANTICS_PERSISTENCY_NONE == 2

J_SEMANTICS_SAFETY_STORAGE == 0
J_SEMANTICS_SAFETY_NETWORK == 1
J_SEMANTICS_SAFETY_NONE == 2

J_SEMANTICS_SECURITY_STRICT == 0
J_SEMANTICS_SECURITY_NONE == 1

\* The six dimension tags, and the tags and values the callers of the model
\* pass: every declared one and one that no enumeration declares.
Keys == J_SEMANTICS_ATOMICITY .. J_SEMANTICS_SECURITY
KeyInputs == Keys \cup {6}
TemplateInputs == {J_SEMANTICS_TEMPLATE_DEFAULT, J_SEMANTICS_TEMPLATE_POSIX,
                   J_SEMANTICS_TEMPLATE_CHECKPOINT, 3}
ValueInputs == {0, 1, 2, 3}
\* The values SpecCalls passes: one that every enumeration declares and one
\* that none declares.
CallValues == {1, 3}

VARIABLES
    sem,        \* the JSemantics object: its eight fields
    alive,      \* the object is allocated (g_slice_new) and not yet freed
    snapshot,   \* history: the six dimensions when j_semantics_ref was first called
    nref,       \* history: calls of j_semantics_ref on the object
    nunref,     \* history: calls of j_semantics_unref on the object
    nfree,      \* history: times g_slice_free ran on the object
    res,        \* history: the last call and what it returned
    tpc,        \* SpecConc: each thread's position
    held,       \* SpecConc: the references each thread owns
    targ,       \* SpecConc: the arguments of a thread's running j_semantics_set
    store_ref,  \* SpecIter: the JStore's reference count
    pool,       \* SpecIter: the connection pool: the idle handles of each index
    cache,      \* SpecIter: the operation cache: the buffered collection creations
    backend,    \* SpecIter: the collection records the metadata backend holds
    it,         \* SpecIter: each thread's JStoreIterator: its three fields
    ipc,        \* SpecIter: each thread's position
    ilog,       \* history: the calls each thread's iterator has made, in order
    pre,        \* history: the writes the cache held when j_store_iterator_new was called
    fault,      \* history: the acquisition that failed during j_store_iterator_new
    ret,        \* history: what j_store_iterator_new returned
    last_next,  \* history: what the last j_store_iterator_next returned
    got,        \* history: what j_store_iterator_get materialized since the last next
    visited     \* history: the records j_store_iterator_next has positioned, in order

semVars == <<sem, alive, snapshot, nref, nunref, nfree, res>>
concVars == <<tpc, held, targ>>
iterVars == <<store_ref, pool, cache, backend, it, ipc, ilog, pre, fault, ret,
              last_next, got, visited>>
vars == <<sem, alive, snapshot, nref, nunref, nfree, res, tpc, held, targ,
          store_ref, pool, cache, backend, it, ipc, ilog, pre, fault, ret,
          last_next, got, visited>>

Threads == 1 .. NThreads

(***************************************************************************)
(* struct JSemantics and the functions of jsemantics.c, as functions of    *)
(* the object's value.                                                     *)
(***************************************************************************)
JSemantics(at, cc, cs, ps, sf, sc, imm, rc) ==
    [atomicity |-> at, consistency |-> cs, persistency |-> ps,
     concurrency |-> cc, safety |-> sf, security |-> sc,
     immutable |-> imm, ref_count |-> rc]

\* What the fields of no object read as in the model: the memory is gone.
NoSemantics == JSemantics(-1, -1, -1, -1, -1, -1, FALSE, 0)

\* The six dimensions of an object, by tag.
Dims(s) ==
    [k \in Keys |->
        CASE k = J_SEMANTICS_ATOMICITY -> s.atomicity
          [] k = J_SEMANTICS_CONCURRENCY -> s.concurrency
          [] k = J_SEMANTICS_CONSISTENCY -> s.consistency
          [] k = J_SEMANTICS_PERSISTENCY -> s.persistency
          [] k = J_SEMANTICS_SAFETY -> s.safety
          [] k = J_SEMANTICS_SECURITY -> s.security]

\* (new_default_only: every template gives the values set first)
new_default_only(template) ==
    JSemantics(J_SEMANTICS_ATOMICITY_NONE, J_SEMANTICS_CONCURRENCY_OVERLAPPING,
               J_SEMANTICS_CONSISTENCY_IMMEDIATE, J_SEMANTICS_PERSISTENCY_EVENTUAL,
               J_SEMANTICS_SAFETY_NONE, J_SEMANTICS_SECURITY_STRICT, FALSE, 1)
j_semantics_new(template) ==
    LET d == JSemantics(J_SEMANTICS_ATOMICITY_NONE,
                        J_SEMANTICS_CONCURRENCY_OVERLAPPING,
                        J_SEMANTICS_CONSISTENCY_IMMEDIATE,
                        J_SEMANTICS_PERSISTENCY_EVENTUAL,
                        J_SEMANTICS_SAFETY_NONE,
                        J_SEMANTICS_SECURITY_STRICT,
                        FALSE, 1)
    IN  CASE template = J_SEMANTICS_TEMPLATE_DEFAULT -> d
          [] template = J_SEMANTICS_TEMPLATE_POSIX ->
                [d EXCEPT !.atomicity = J_SEMANTICS_ATOMICITY_OPERATION,
                          !.concurrency = J_SEMANTICS_CONCURRENCY_OVERLAPPING,
                          !.consistency = J_SEMANTICS_CONSISTENCY_IMMEDIATE,
                          !.persistency = J_SEMANTICS_PERSISTENCY_EVENTUAL,
                          !.safety = J_SEMANTICS_SAFETY_NONE,
                          !.security = J_SEMANTICS_SECURITY_STRICT]
          [] template = J_SEMANTICS_TEMPLATE_CHECKPOINT ->
                [d EXCEPT !.atomicity = J_SEMANTICS_ATOMICITY_NONE,
                          !.concurrency = J_SEMANTICS_CONCURRENCY_NON_OVERLAPPING,
                          !.consistency = J_SEMANTICS_CONSISTENCY_EVENTUAL,
                          !.persistency = J_SEMANTICS_PERSISTENCY_EVENTUAL,
                          !.safety = J_SEMANTICS_SAFETY_NONE,
                          !.security = J_SEMANTICS_SECURITY_NONE]
          \* default: g_warn_if_reached() logs a warning and falls through
          [] OTHER -> d

\* g_atomic_int_inc(&(semantics->ref_count))
\* (ref_inc_first_only: an increment that counts only the first share)
ref_inc_first_only(s) == IF s.immutable THEN s ELSE [s EXCEPT !.ref_count = @ + 1]
ref_inc(s) == [s EXCEPT !.ref_count = @ + 1]

\* if (!semantics->immutable) { semantics->immutable = TRUE; }
\* (ref_freeze_skipped: the statement left out)
ref_freeze_skipped(s) == s
ref_freeze(s) == IF ~s.immutable THEN [s EXCEPT !.immutable = TRUE] ELSE s

j_semantics_ref(s) == ref_freeze(ref_inc(s))

\* g_atomic_int_dec_and_test(&(semantics->ref_count)): the decrement, and
\* whether the count reached zero.
unref_dec(s) == [s EXCEPT !.ref_count = @ - 1]
\* (unref_frees_at_one: a test that frees one release early)
unref_frees_at_one(s) == s.ref_count <= 1
unref_frees(s) == s.ref_count = 0

\* The switch of j_semantics_set: the store into the named field.
\* (set_store_one_field: every key stores into the atomicity field)
set_store_one_field(s, key, value) == [s EXCEPT !.atomicity = value]
set_store(s, key, value) ==
    CASE key = J_SEMANTICS_ATOMICITY -> [s EXCEPT !.atomicity = value]
      [] key = J_SEMANTICS_CONCURRENCY -> [s EXCEPT !.concurrency = value]
      [] key = J_SEMANTICS_CONSISTENCY -> [s EXCEPT !.consistency = value]
      [] key = J_SEMANTICS_PERSISTENCY -> [s EXCEPT !.persistency = value]
      [] key = J_SEMANTICS_SAFETY -> [s EXCEPT !.safety = value]
      [] key = J_SEMANTICS_SECURITY -> [s EXCEPT !.security = value]
      \* default: g_warn_if_reached()
      [] OTHER -> s

\* g_return_if_fail(!semantics->immutable): whether the call goes on.
\* (set_allowed_always: the guard left out)
set_allowed_always(s) == TRUE
set_allowed(s) == ~s.immutable

j_semantics_set(s, key, value) ==
    IF set_allowed(s) THEN set_store(s, key, value) ELSE s

j_semantics_get(s, key) ==
    CASE key = J_SEMANTICS_ATOMICITY -> s.atomicity
      [] key = J_SEMANTICS_CONCURRENCY -> s.concurrency
      [] key = J_SEMANTICS_CONSISTENCY -> s.consistency
      [] key = J_SEMANTICS_PERSISTENCY -> s.persistency
      [] key = J_SEMANTICS_SAFETY -> s.safety
      [] key = J_SEMANTICS_SECURITY -> s.security
      \* default: g_return_val_if_reached(-1)
      [] OTHER -> -1

(***************************************************************************)
(* Text.  A C string is modelled as a sequence of atoms; an atom stands    *)
(* for a fixed run of characters that holds neither ',' nor '=', or for    *)
(* one of these two characters.  No atom of the alphabet below is a prefix *)
(* of another or a concatenation of others, so two atom sequences are      *)
(* equal, or one a prefix of the other, exactly when the character strings *)
(* are.  NullStr is the NULL pointer.                                      *)
(***************************************************************************)
NullStr == <<"NULL">>

\* strchr(s, c): the index of the first c in s, 0 for NULL (not found).
strchr(s, c) ==
    IF \E i \in 1 .. Len(s) : s[i] = c
    THEN CHOOSE i \in 1 .. Len(s) : s[i] = c /\ \A j \in 1 .. (i - 1) : s[j] # c
    ELSE 0

\* g_str_has_prefix(s, prefix)
g_str_has_prefix(s, prefix) ==
    Len(s) >= Len(prefix) /\ SubSeq(s, 1, Len(prefix)) = prefix

\* g_strsplit(string, ",", 0): the empty string gives no part at all; any
\* other string gives one part more than it has delimiters.
RECURSIVE split_parts(_)
split_parts(s) ==
    LET i == strchr(s, ",")
    IN  IF i = 0 THEN <<s>>
        ELSE <<SubSeq(s, 1, i - 1)>> \o split_parts(SubSeq(s, i + 1, Len(s)))

g_strsplit(s) == IF s = <<>> THEN <<>> ELSE split_parts(s)

\* One pass of the loop body of j_semantics_parse over parts[i].
\* (parse_part_loose: a part without '=' is taken as a request for batch
\* atomicity)
parse_part_loose(s, part) ==
    IF strchr(part, "=") = 0
    THEN j_semantics_set(s, J_SEMANTICS_ATOMICITY, J_SEMANTICS_ATOMICITY_BATCH)
    ELSE s
parse_part(s, part) ==
    LET eq == strchr(part, "=")
        value == SubSeq(part, eq + 1, Len(part))
    IN  IF eq = 0 THEN s
        ELSE IF g_str_has_prefix(part, <<"atomicity", "=">>) THEN
            IF value = <<"batch">> THEN
                j_semantics_set(s, J_SEMANTICS_ATOMICITY, J_SEMANTICS_ATOMICITY_BATCH)
            ELSE IF value = <<"operation">> THEN
                j_semantics_set(s, J_SEMANTICS_ATOMICITY, J_SEMANTICS_ATOMICITY_OPERATION)
            ELSE IF value = <<"none">> THEN
                j_semantics_set(s, J_SEMANTICS_ATOMICITY, J_SEMANTICS_ATOMICITY_NONE)
            ELSE s
        ELSE IF g_str_has_prefix(part, <<"concurrency", "=">>) THEN
            IF value = <<"overlapping">> THEN
                j_semantics_set(s, J_SEMANTICS_CONCURRENCY, J_SEMANTICS_CONCURRENCY_OVERLAPPING)
            ELSE IF value = <<"non-overlapping">> THEN
                j_semantics_set(s, J_SEMANTICS_CONCURRENCY, J_SEMANTICS_CONCURRENCY_NON_OVERLAPPING)
            ELSE IF value = <<"none">> THEN
                j_semantics_set(s, J_SEMANTICS_CONCURRENCY, J_SEMANTICS_CONCURRENCY_NONE)
            ELSE s
        ELSE IF g_str_has_prefix(part, <<"consistency", "=">>) THEN
            IF value = <<"immediate">> THEN
                j_semantics_set(s, J_SEMANTICS_CONSISTENCY, J_SEMANTICS_CONSISTENCY_IMMEDIATE)
            ELSE IF value = <<"eventual">> THEN
                j_semantics_set(s, J_SEMANTICS_CONSISTENCY, J_SEMANTICS_CONSISTENCY_EVENTUAL)
            ELSE IF value = <<"none">> THEN
                j_semantics_set(s, J_SEMANTICS_CONSISTENCY, J_SEMANTICS_CONSISTENCY_NONE)
            ELSE s
        ELSE IF g_str_has_prefix(part, <<"persistency", "=">>) THEN
            IF value = <<"immediate">> THEN
                j_semantics_set(s, J_SEMANTICS_PERSISTENCY, J_SEMANTICS_PERSISTENCY_IMMEDIATE)
            ELSE IF value = <<"eventual">> THEN
                j_semantics_set(s, J_SEMANTICS_PERSISTENCY, J_SEMANTICS_PERSISTENCY_EVENTUAL)
            ELSE IF value = <<"none">> THEN
                j_semantics_set(s, J_SEMANTICS_PERSISTENCY, J_SEMANTICS_PERSISTENCY_NONE)
            ELSE s
        ELSE IF g_str_has_prefix(part, <<"safety", "=">>) THEN
            IF value = <<"storage">> THEN
                j_semantics_set(s, J_SEMANTICS_SAFETY, J_SEMANTICS_SAFETY_STORAGE)
            ELSE IF value = <<"network">> THEN
                j_semantics_set(s, J_SEMANTICS_SAFETY, J_SEMANTICS_SAFETY_NETWORK)
            ELSE IF value = <<"none">> THEN
                j_semantics_set(s, J_SEMANTICS_SAFETY, J_SEMANTICS_SAFETY_NONE)
            ELSE s
        ELSE IF g_str_has_prefix(part, <<"security", "=">>) THEN
            IF value = <<"strict">> THEN
                j_semantics_set(s, J_SEMANTICS_SECURITY, J_SEMANTICS_SECURITY_STRICT)
            ELSE IF value = <<"none">> THEN
                j_semantics_set(s, J_SEMANTICS_SECURITY, J_SEMANTICS_SECURITY_NONE)
            ELSE s
        ELSE s

\* for (guint i = 0; i < parts_len; i++): the parts from index i on.
\* (parse_loop_backwards: the parts applied from the last to the first)
RECURSIVE parse_loop_backwards(_, _, _)
parse_loop_backwards(s, parts, i) ==
    IF i > Len(parts) THEN s
    ELSE parse_part(parse_loop_backwards(s, parts, i + 1), parts[i])
RECURSIVE parse_loop(_, _, _)
parse_loop(s, parts, i) ==
    IF i > Len(parts) THEN s
    ELSE parse_loop(parse_part(s, parts[i]), parts, i + 1)

\* The template j_semantics_parse selects (g_strcmp0 takes NULL).
\* (parse_template_anycase: a comparison that ignores the case of letters)
parse_template_anycase(template_str) ==
    IF template_str \in {<<"posix">>, <<"Posix">>} THEN J_SEMANTICS_TEMPLATE_POSIX
    ELSE IF template_str = <<"checkpoint">> THEN J_SEMANTICS_TEMPLATE_CHECKPOINT
    ELSE J_SEMANTICS_TEMPLATE_DEFAULT
parse_template(template_str) ==
    IF template_str = <<"posix">> THEN J_SEMANTICS_TEMPLATE_POSIX
    ELSE IF template_str = <<"checkpoint">> THEN J_SEMANTICS_TEMPLATE_CHECKPOINT
    ELSE J_SEMANTICS_TEMPLATE_DEFAULT

\* (parse_shared: the object handed back through j_semantics_ref)
parse_shared(template_str, semantics_str) ==
    j_semantics_ref(j_semantics_new(parse_template(template_str)))
j_semantics_parse(template_str, semantics_str) ==
    LET semantics == j_semantics_new(parse_template(template_str))
    IN  IF semantics_str = NullStr THEN semantics
        ELSE parse_loop(semantics, g_strsplit(semantics_str), 1)

(***************************************************************************)
(* The texts the callers of the model pass to j_semantics_parse.           *)
(***************************************************************************)
\* Override tokens in one string: at most this many.
MaxTokens == 2

TemplateTexts ==
    {<<"posix">>, <<"checkpoint">>, <<"default">>, <<"Posix">>,
     <<"posix", "x">>, <<>>, NullStr}

TokenInputs ==
    {<<"atomicity", "=", "batch">>, <<"safety", "=", "storage">>,
     <<"consistency", "=", "eventual">>, <<"consistency", "=", "immediate">>,
     <<"consistency", "=", "x">>, <<"security", "=", "none">>,
     <<"concurrency", "=", "non-overlapping">>,
     <<"persistency", "=", "immediate">>,
     <<"Atomicity", "=", "batch">>, <<"x", "=", "batch">>,
     <<"atomicity", "=", "batch", "=", "none">>, <<"atomicity">>, <<>>}

\* The tokens joined with ',': the strings of n tokens.
RECURSIVE TextsOf(_)
TextsOf(n) ==
    IF n = 1 THEN TokenInputs
    ELSE {t \o <<",">> \o u : t \in TextsOf(n - 1), u \in TokenInputs}

OverrideTexts == {NullStr} \cup UNION {TextsOf(n) : n \in 1 .. MaxTokens}

(***************************************************************************)
(* Spec: one caller, one descriptor, one call per step.                    *)
(***************************************************************************)
NoSnapshot == [k \in Keys |-> -2]
\* The last call: of j_semantics_new (ret: the template passed), of
\* j_semantics_parse (ret: the two texts passed), of j_semantics_set (ret: 1
\* stored, 0 refused) or of j_semantics_get (ret: the value returned);
\* "none" after any other call.
Result(op, value) == [op |-> op, ret |-> value]
\* The same with the arguments of the call, for j_semantics_set (key, value)
\* and j_semantics_get (key).
Called(op, args, value) == [op |-> op, ret |-> value, args |-> args]

\* The references the caller holds: the creator's and one per share, less
\* the ones released.
HeldByCaller == 1 + nref - nunref

\* A fresh object: no history yet.
FreshHistory ==
    /\ snapshot' = NoSnapshot
    /\ nref' = 0
    /\ nunref' = 0
    /\ nfree' = 0

New(template) ==
    /\ ~alive
    /\ sem' = j_semantics_new(template)
    /\ alive' = TRUE
    /\ FreshHistory
    /\ res' = Result("new", template)
    /\ UNCHANGED <<concVars, iterVars>>

Parse(template_str, semantics_str) ==
    /\ ~alive
    /\ sem' = j_semantics_parse(template_str, semantics_str)
    /\ alive' = TRUE
    /\ FreshHistory
    /\ res' = Result("parse", <<template_str, semantics_str>>)
    /\ UNCHANGED <<concVars, iterVars>>

\* j_semantics_set and j_semantics_get; SetCall and GetCall are the same
\* calls with their arguments kept in the history.
Set(key, value) ==
    /\ alive
    /\ sem' = j_semantics_set(sem, key, value)
    /\ res' = Result("set", IF set_allowed(sem) THEN 1 ELSE 0)
    /\ UNCHANGED <<alive, snapshot, nref, nunref, nfree, concVars, iterVars>>

SetCall(key, value) ==
    /\ alive
    /\ sem' = j_semantics_set(sem, key, value)
    /\ res' = Called("set", <<key, value>>, IF set_allowed(sem) THEN 1 ELSE 0)
    /\ UNCHANGED <<alive, snapshot, nref, nunref, nfree, concVars, iterVars>>

Get(key) ==
    /\ alive
    /\ res' = Result("get", j_semantics_get(sem, key))
    /\ UNCHANGED <<sem, alive, snapshot, nref, nunref, nfree, concVars, iterVars>>

GetCall(key) ==
    /\ alive
    /\ res' = Called("get", <<key>>, j_semantics_get(sem, key))
    /\ UNCHANGED <<sem, alive, snapshot, nref, nunref, nfree, concVars, iterVars>>

Ref ==
    /\ alive
    /\ nref < MaxRefs
    /\ sem' = j_semantics_ref(sem)
    /\ snapshot' = IF nref = 0 THEN Dims(sem) ELSE snapshot
    /\ nref' = nref + 1
    /\ res' = Result("none", 0)
    /\ UNCHANGED <<alive, nunref, nfree, concVars, iterVars>>

\* The caller releases only references it holds.
Unref ==
    /\ alive
    /\ HeldByCaller > 0
    /\ LET s == unref_dec(sem)
       IN  IF unref_frees(s)
           THEN /\ sem' = NoSemantics
                /\ alive' = FALSE
                /\ nfree' = nfree + 1
                /\ snapshot' = NoSnapshot
           ELSE /\ sem' = s
                /\ UNCHANGED <<alive, nfree, snapshot>>
    /\ nunref' = nunref + 1
    /\ res' = Result("none", 0)
    /\ UNCHANGED <<nref, concVars, iterVars>>

InitSem ==
    /\ sem = NoSemantics
    /\ alive = FALSE
    /\ snapshot = NoSnapshot
    /\ nref = 0
    /\ nunref = 0
    /\ nfree = 0
    /\ res = Result("none", 0)

InitConcIdle ==
    /\ tpc = [t \in Threads |-> "idle"]
    /\ held = [t \in Threads |-> 0]
    /\ targ = [t \in Threads |-> <<0, 0>>]

(***************************************************************************)
(* SpecConc: threads on one descriptor, one statement per step.  A thread  *)
(* calls into the object only while it owns a reference; GiveRef hands one *)
(* of a thread's references to another thread.                             *)
(***************************************************************************)
\* The arguments the threads pass to j_semantics_set.
ConcSetInputs ==
    {<<J_SEMANTICS_SAFETY, J_SEMANTICS_SAFETY_STORAGE>>,
     <<J_SEMANTICS_ATOMICITY, J_SEMANTICS_ATOMICITY_BATCH>>}

AllIdle == \A t \in Threads : tpc[t] = "idle"

\* j_semantics_new by thread t, once the previous object is gone.
CNew(t, template) ==
    /\ ~alive
    /\ AllIdle
    /\ sem' = j_semantics_new(template)
    /\ alive' = TRUE
    /\ FreshHistory
    /\ res' = Result("new", template)
    /\ held' = [u \in Threads |-> IF u = t THEN 1 ELSE 0]
    /\ UNCHANGED <<tpc, targ, iterVars>>

\* j_semantics_ref, line 158: g_atomic_int_inc.
CRefInc(t) ==
    /\ tpc[t] = "idle"
    /\ held[t] >= 1
    /\ nref < MaxShares
    /\ sem' = ref_inc(sem)
    /\ nref' = nref + 1
    /\ tpc' = [tpc EXCEPT ![t] = "ref_freeze"]
    /\ UNCHANGED <<alive, snapshot, nunref, nfree, res, held, targ, iterVars>>

\* j_semantics_ref, lines 160-165: the flag, and the return of the new
\* reference to the caller.
CRefFreeze(t) ==
    /\ tpc[t] = "ref_freeze"
    /\ sem' = ref_freeze(sem)
    /\ held' = [held EXCEPT ![t] = @ + 1]
    /\ tpc' = [tpc EXCEPT ![t] = "idle"]
    /\ UNCHANGED <<alive, snapshot, nref, nunref, nfree, res, targ, iterVars>>

\* j_semantics_unref, line 184: g_atomic_int_dec_and_test.
CUnrefDec(t) ==
    /\ tpc[t] = "idle"
    /\ held[t] >= 1
    /\ LET s == unref_dec(sem)
       IN  /\ sem' = s
           /\ tpc' = [tpc EXCEPT ![t] = IF unref_frees(s) THEN "unref_free" ELSE "idle"]
    /\ held' = [held EXCEPT ![t] = @ - 1]
    /\ nunref' = nunref + 1
    /\ UNCHANGED <<alive, snapshot, nref, nfree, res, targ, iterVars>>

\* j_semantics_unref, line 186: g_slice_free.
CUnrefFree(t) ==
    /\ tpc[t] = "unref_free"
    /\ alive' = FALSE
    /\ nfree' = nfree + 1
    /\ tpc' = [tpc EXCEPT ![t] = "idle"]
    /\ UNCHANGED <<sem, snapshot, nref, nunref, res, held, targ, iterVars>>

\* j_semantics_set, line 209: the check of the flag.
CSetCheck(t, key, value) ==
    /\ tpc[t] = "idle"
    /\ held[t] >= 1
    /\ IF set_allowed(sem)
       THEN /\ tpc' = [tpc EXCEPT ![t] = "set_store"]
            /\ targ' = [targ EXCEPT ![t] = <<key, value>>]
            /\ UNCHANGED res
       ELSE /\ res' = Result("set", 0)
            /\ UNCHANGED <<tpc, targ>>
    /\ UNCHANGED <<sem, alive, snapshot, nref, nunref, nfree, held, iterVars>>

\* j_semantics_set, lines 211-233: the store.
CSetStore(t) ==
    /\ tpc[t] = "set_store"
    /\ sem' = set_store(sem, targ[t][1], targ[t][2])
    /\ tpc' = [tpc EXCEPT ![t] = "idle"]
    /\ targ' = [targ EXCEPT ![t] = <<0, 0>>]
    /\ res' = Result("set", 1)
    /\ UNCHANGED <<alive, snapshot, nref, nunref, nfree, held, iterVars>>

\* Thread t passes one of its references on to thread u.
GiveRef(t, u) ==
    /\ t # u
    /\ tpc[t] = "idle"
    /\ held[t] >= 1
    /\ held' = [held EXCEPT ![t] = @ - 1, ![u] = @ + 1]
    /\ UNCHANGED <<semVars, tpc, targ, iterVars>>

(***************************************************************************)
(* The store iterator (jstore-iterator.c) and what it calls.               *)
(*                                                                         *)
(* The operation cache, the connection pool and the store are files of the *)
(* repository that are not among the sources; they are modelled            *)
(* from their contracts: j_operation_cache_flush makes every buffered      *)
(* write visible in the backend, j_connection_pool_pop_meta takes an idle  *)
(* handle of the index out of the pool (waiting while there is none) or    *)
(* fails, j_connection_pool_push_meta puts a handle back at the index,     *)
(* j_store_ref and j_store_unref count references.  The cursor is the      *)
(* MongoDB C driver's: mongo_find gives NULL when the query fails,         *)
(* mongo_cursor_next gives MONGO_ERROR for a NULL or exhausted cursor and  *)
(* leaves the current record in place, mongo_cursor_destroy takes NULL.    *)
(***************************************************************************)
NULL == 0
\* j_connection_pool_pop_meta(0), j_connection_pool_push_meta(0, ...)
MetaSlot == 0

Iters == 1 .. NIters
Conns == 1 .. NConns
Colls == 1 .. NColls
Slots == {MetaSlot, MetaSlot + 1}
\* The store argument of j_store_iterator_new: a JStore, or NULL.
STORE == NULL + 1
StoreInputs == {NULL, STORE}

\* A mongo_cursor: the records still to come and the current record (NULL
\* before the first record).  NullCursor is the NULL pointer, and what the
\* field reads as once mongo_cursor_destroy has run.
MongoCursor(rem, cur) == [null |-> FALSE, rem |-> rem, cur |-> cur]
NullCursor == [null |-> TRUE, rem |-> {}, cur |-> NULL]

\* struct JStoreIterator
JStoreIterator(connection, store, cursor) ==
    [connection |-> connection, store |-> store, cursor |-> cursor]

\* A thread without an iterator.
NoIterator == JStoreIterator(NULL, NULL, NullCursor)

Running == \A i \in Iters : ipc[i] # "crashed"

Logged(i, event) == ilog' = [ilog EXCEPT ![i] = Append(@, event)]

\* j_operation_cache_flush(): the buffered writes reach the backend.
j_operation_cache_flush ==
    /\ backend' = backend \cup cache
    /\ cache' = {}

\* j_connection_pool_pop_meta(index) giving handle c.
j_connection_pool_pop_meta(index, c) ==
    /\ c \in pool[index]
    /\ pool' = [pool EXCEPT ![index] = @ \ {c}]

\* j_connection_pool_push_meta(index, connection); a NULL handle is refused.
j_connection_pool_push_meta(index, connection) ==
    pool' = IF connection = NULL THEN pool
            ELSE [pool EXCEPT ![index] = @ \cup {connection}]

\* j_store_ref(store), j_store_unref(store)
j_store_ref == store_ref' = store_ref + 1
j_store_unref == store_ref' = store_ref - 1

\* A client's write, a collection creation, is accepted into the cache.
IWrite(c) ==
    /\ Running
    /\ c \notin cache \cup backend
    /\ cache' = cache \cup {c}
    /\ UNCHANGED <<semVars, concVars, store_ref, pool, backend, it, ipc, ilog,
                   pre, fault, ret, last_next, got,
                   visited>>

\* j_store_iterator_new, line 87: the call, and the return of NULL for a
\* NULL store.
INewCall(i, store) ==
    /\ Running
    /\ ipc[i] = "none"
    /\ ilog' = [ilog EXCEPT ![i] = <<>>]
    /\ pre' = [pre EXCEPT ![i] = IF store = NULL THEN {} ELSE cache]
    /\ fault' = [fault EXCEPT ![i] = "none"]
    /\ last_next' = [last_next EXCEPT ![i] = "none"]
    /\ got' = [got EXCEPT ![i] = NULL]
    /\ visited' = [visited EXCEPT ![i] = <<>>]
    /\ IF store = NULL
       THEN /\ ret' = [ret EXCEPT ![i] = "NULL"]
            /\ UNCHANGED ipc
       ELSE /\ ret' = [ret EXCEPT ![i] = "none"]
            /\ ipc' = [ipc EXCEPT ![i] = "flush"]
    /\ UNCHANGED <<semVars, concVars, store_ref, pool, cache, backend, it>>

\* j_store_iterator_new, line 89: j_operation_cache_flush().
\* (INewFlush_Skipped: the call left out; INewFlush_AfterPop: the call moved
\* behind j_connection_pool_pop_meta)
INewFlush_Skipped(i) ==
    /\ Running
    /\ ipc[i] = "flush"
    /\ ipc' = [ipc EXCEPT ![i] = "ref"]
    /\ UNCHANGED <<semVars, concVars, store_ref, pool, cache, backend, it, ilog,
                   pre, fault, ret, last_next, got,
                   visited>>
INewFlush_AfterPop(i) ==
    /\ Running
    /\ \/ /\ ipc[i] = "flush"
          /\ ipc' = [ipc EXCEPT ![i] = "ref"]
          /\ UNCHANGED <<cache, backend, ilog>>
       \/ /\ ipc[i] = "find"
          /\ "flush" \notin {ilog[i][k] : k \in 1 .. Len(ilog[i])}
          /\ j_operation_cache_flush
          /\ Logged(i, "flush")
          /\ UNCHANGED ipc
    /\ UNCHANGED <<semVars, concVars, store_ref, pool, it, pre, fault, ret,
                   last_next, got,
                   visited>>
INewFlush(i) ==
    /\ Running
    /\ ipc[i] = "flush"
    /\ j_operation_cache_flush
    /\ Logged(i, "flush")
    /\ ipc' = [ipc EXCEPT ![i] = "ref"]
    /\ UNCHANGED <<semVars, concVars, store_ref, pool, it, pre, fault, ret,
                   last_next, got,
                   visited>>

\* j_store_iterator_new, lines 91-92: g_slice_new and j_store_ref.
\* (INewRef_NotCounted: j_store_ref left out)
INewRef_NotCounted(i) ==
    /\ Running
    /\ ipc[i] = "ref"
    /\ it' = [it EXCEPT ![i] = JStoreIterator(NULL, STORE, NullCursor)]
    /\ Logged(i, "ref")
    /\ ipc' = [ipc EXCEPT ![i] = "pop"]
    /\ UNCHANGED <<semVars, concVars, store_ref, pool, cache, backend, pre,
                   fault, ret, last_next, got,
                   visited>>
INewRef(i) ==
    /\ Running
    /\ ipc[i] = "ref"
    /\ j_store_ref
    /\ it' = [it EXCEPT ![i] = JStoreIterator(NULL, STORE, NullCursor)]
    /\ Logged(i, "ref")
    /\ ipc' = [ipc EXCEPT ![i] = "pop"]
    /\ UNCHANGED <<semVars, concVars, pool, cache, backend, pre, fault, ret,
                   last_next, got,
                   visited>>

\* j_store_iterator_new, line 93: the pool gives a handle, or fails and
\* gives none.
INewPop(i) ==
    /\ Running
    /\ ipc[i] = "pop"
    /\ \/ \E c \in Conns :
             /\ j_connection_pool_pop_meta(MetaSlot, c)
             /\ it' = [it EXCEPT ![i].connection = c]
             /\ UNCHANGED fault
       \/ /\ it' = [it EXCEPT ![i].connection = NULL]
          /\ fault' = [fault EXCEPT ![i] = "pop"]
          /\ UNCHANGED pool
    /\ Logged(i, "pop")
    /\ ipc' = [ipc EXCEPT ![i] = "find"]
    /\ UNCHANGED <<semVars, concVars, store_ref, cache, backend, pre, ret,
                   last_next, got,
                   visited>>

\* j_store_iterator_new, lines 95-99: mongo_find and the return of the
\* iterator.  The cursor ranges over the records the backend holds; the
\* query may fail (NULL); with a NULL connection the driver dereferences
\* NULL, which ends the process or fails the query.
INewFind(i) ==
    /\ Running
    /\ ipc[i] = "find"
    /\ \/ /\ it[i].connection # NULL
          /\ it' = [it EXCEPT ![i].cursor = MongoCursor(backend, NULL)]
          /\ ipc' = [ipc EXCEPT ![i] = "ready"]
          /\ ret' = [ret EXCEPT ![i] = "iterator"]
          /\ UNCHANGED fault
       \/ /\ it' = [it EXCEPT ![i].cursor = NullCursor]
          /\ ipc' = [ipc EXCEPT ![i] = "ready"]
          /\ ret' = [ret EXCEPT ![i] = "iterator"]
          /\ fault' = [fault EXCEPT ![i] = IF @ = "none" THEN "find" ELSE @]
       \/ /\ it[i].connection = NULL
          /\ ipc' = [ipc EXCEPT ![i] = "crashed"]
          /\ UNCHANGED <<it, ret, fault>>
    /\ Logged(i, "find")
    /\ UNCHANGED <<semVars, concVars, store_ref, pool, cache, backend, pre,
                   last_next, got,
                   visited>>

\* j_store_iterator_next: mongo_cursor_next(iterator->cursor) == MONGO_OK.
\* (INext_Again: a cursor that yields a record and keeps it to come)
INext_Again(i) ==
    /\ Running
    /\ ipc[i] = "ready"
    /\ IF it[i].cursor = NullCursor
       THEN /\ last_next' = [last_next EXCEPT ![i] = "false"]
            /\ UNCHANGED <<it, visited>>
       ELSE \/ \E r \in it[i].cursor.rem :
                 /\ it' = [it EXCEPT ![i].cursor = MongoCursor(it[i].cursor.rem, r)]
                 /\ Len(visited[i]) <= NColls
                 /\ visited' = [visited EXCEPT ![i] = Append(@, r)]
                 /\ last_next' = [last_next EXCEPT ![i] = "true"]
            \/ /\ it[i].cursor.rem = {}
               /\ last_next' = [last_next EXCEPT ![i] = "false"]
               /\ UNCHANGED <<it, visited>>
    /\ ilog' = [ilog EXCEPT ![i] =
                   IF "next" \in {@[k] : k \in 1 .. Len(@)} THEN @
                   ELSE Append(@, "next")]
    /\ got' = [got EXCEPT ![i] = NULL]
    /\ UNCHANGED <<semVars, concVars, store_ref, pool, cache, backend, ipc,
                   pre, fault, ret>>
INext(i) ==
    /\ Running
    /\ ipc[i] = "ready"
    /\ IF it[i].cursor = NullCursor
       THEN /\ last_next' = [last_next EXCEPT ![i] = "false"]
            /\ UNCHANGED <<it, visited>>
       ELSE \/ \E r \in it[i].cursor.rem :
                 /\ it' = [it EXCEPT ![i].cursor =
                              MongoCursor(it[i].cursor.rem \ {r}, r)]
                 /\ visited' = [visited EXCEPT ![i] = Append(@, r)]
                 /\ last_next' = [last_next EXCEPT ![i] = "true"]
            \/ /\ it[i].cursor.rem = {}
               /\ last_next' = [last_next EXCEPT ![i] = "false"]
               /\ UNCHANGED <<it, visited>>
    /\ ilog' = [ilog EXCEPT ![i] =
                   IF "next" \in {@[k] : k \in 1 .. Len(@)} THEN @
                   ELSE Append(@, "next")]
    /\ got' = [got EXCEPT ![i] = NULL]
    /\ UNCHANGED <<semVars, concVars, store_ref, pool, cache, backend, ipc,
                   pre, fault, ret>>

\* What j_collection_new_from_bson builds from memory that holds no record.
Garbage == NULL - 1

\* j_store_iterator_get: j_collection_new_from_bson of the cursor's current
\* record, whatever the cursor's state.  With a NULL cursor the read of the
\* record ends the process; before the first record the cursor's current
\* bson has no data, and reading it ends the process or yields garbage.
IGet(i) ==
    /\ Running
    /\ ipc[i] = "ready"
    /\ IF it[i].cursor = NullCursor
       THEN /\ ipc' = [ipc EXCEPT ![i] = "crashed"]
            /\ UNCHANGED got
       ELSE IF it[i].cursor.cur = NULL
       THEN \/ /\ ipc' = [ipc EXCEPT ![i] = "crashed"]
               /\ UNCHANGED got
            \/ /\ got' = [got EXCEPT ![i] = Garbage]
               /\ UNCHANGED ipc
       ELSE /\ got' = [got EXCEPT ![i] = it[i].cursor.cur]
            /\ UNCHANGED ipc
    /\ UNCHANGED <<semVars, concVars, store_ref, pool, cache, backend, it, ilog,
                   pre, fault, ret, last_next,
                   visited>>

\* j_store_iterator_free, line 114: mongo_cursor_destroy.
IFreeDestroy(i) ==
    /\ Running
    /\ ipc[i] = "ready"
    /\ it' = [it EXCEPT ![i].cursor = NullCursor]
    /\ Logged(i, "destroy")
    /\ ipc' = [ipc EXCEPT ![i] = "push"]
    /\ UNCHANGED <<semVars, concVars, store_ref, pool, cache, backend, pre,
                   fault, ret, last_next, got,
                   visited>>

\* j_store_iterator_free, line 115: j_connection_pool_push_meta(0, ...).
\* (IFreePush_OtherSlot: the handle pushed at another index)
IFreePush_OtherSlot(i) ==
    /\ Running
    /\ ipc[i] = "push"
    /\ j_connection_pool_push_meta(MetaSlot + 1, it[i].connection)
    /\ Logged(i, "push")
    /\ ipc' = [ipc EXCEPT ![i] = "unref"]
    /\ UNCHANGED <<semVars, concVars, store_ref, cache, backend, it, pre,
                   fault, ret, last_next, got,
                   visited>>
IFreePush(i) ==
    /\ Running
    /\ ipc[i] = "push"
    /\ j_connection_pool_push_meta(MetaSlot, it[i].connection)
    /\ Logged(i, "push")
    /\ ipc' = [ipc EXCEPT ![i] = "unref"]
    /\ UNCHANGED <<semVars, concVars, store_ref, cache, backend, it, pre,
                   fault, ret, last_next, got,
                   visited>>

\* j_store_iterator_free, lines 117-119: j_store_unref and g_slice_free.
IFreeUnref(i) ==
    /\ Running
    /\ ipc[i] = "unref"
    /\ j_store_unref
    /\ it' = [it EXCEPT ![i] = NoIterator]
    /\ Logged(i, "unref")
    /\ ipc' = [ipc EXCEPT ![i] = "none"]
    /\ pre' = [pre EXCEPT ![i] = {}]
    /\ got' = [got EXCEPT ![i] = NULL]
    /\ visited' = [visited EXCEPT ![i] = <<>>]
    /\ UNCHANGED <<semVars, concVars, pool, cache, backend, fault, ret,
                   last_next>>

\* j_store_iterator_free has run on the thread's iterator: the pointer the
\* caller still has points to memory given back by g_slice_free.
Disposed(i) ==
    /\ ipc[i] = "none"
    /\ ilog[i] # <<>>
    /\ ilog[i][Len(ilog[i])] = "unref"

\* j_store_iterator_next on a disposed iterator: the pointer is not NULL, so
\* the check of line 137 passes and line 139 reads the cursor field of freed
\* memory.  The process ends, or the call returns either value.
INextDisposed(i) ==
    /\ Running
    /\ Disposed(i)
    /\ \/ /\ ipc' = [ipc EXCEPT ![i] = "crashed"]
          /\ UNCHANGED last_next
       \/ /\ \E b \in {"true", "false"} : last_next' = [last_next EXCEPT ![i] = b]
          /\ UNCHANGED ipc
    /\ UNCHANGED <<semVars, concVars, store_ref, pool, cache, backend, it, ilog,
                   pre, fault, ret, got, visited>>

\* j_store_iterator_get on a disposed iterator: line 159 passes and line 161
\* reads the store and cursor fields of freed memory.
IGetDisposed(i) ==
    /\ Running
    /\ Disposed(i)
    /\ \/ /\ ipc' = [ipc EXCEPT ![i] = "crashed"]
          /\ UNCHANGED got
       \/ /\ got' = [got EXCEPT ![i] = Garbage]
          /\ UNCHANGED ipc
    /\ UNCHANGED <<semVars, concVars, store_ref, pool, cache, backend, it, ilog,
                   pre, fault, ret, last_next, visited>>

\* j_store_iterator_free on a disposed iterator: line 112 passes and lines
\* 114-119 run on freed memory.  The process ends (the cursor or the slice
\* is freed twice), or the fields read as some handle and the store, and the
\* handle is pushed and the store released once more.
IFreeDisposed(i) ==
    /\ Running
    /\ Disposed(i)
    /\ \/ /\ ipc' = [ipc EXCEPT ![i] = "crashed"]
          /\ UNCHANGED <<pool, store_ref, ilog>>
       \/ /\ \E c \in Conns \cup {NULL} : j_connection_pool_push_meta(MetaSlot, c)
          /\ j_store_unref
          /\ ilog' = [ilog EXCEPT ![i] = @ \o <<"destroy", "push", "unref">>]
          /\ ipc' = [ipc EXCEPT ![i] = "freed_twice"]
    /\ UNCHANGED <<semVars, concVars, cache, backend, it, pre, fault, ret,
                   last_next, got, visited>>

InitPool == [s \in Slots |-> IF s = MetaSlot THEN Conns ELSE {}]

InitIterIdle ==
    /\ store_ref = StoreBase
    /\ pool = InitPool
    /\ cache = {}
    /\ backend = {}
    /\ it = [i \in Iters |-> NoIterator]
    /\ ipc = [i \in Iters |-> "none"]
    /\ ilog = [i \in Iters |-> <<>>]
    /\ pre = [i \in Iters |-> {}]
    /\ fault = [i \in Iters |-> "none"]
    /\ ret = [i \in Iters |-> "none"]
    /\ last_next = [i \in Iters |-> "none"]
    /\ got = [i \in Iters |-> NULL]
    /\ visited = [i \in Iters |-> <<>>]

(***************************************************************************)
(* The specifications.                                                     *)
(***************************************************************************)
Init == InitSem /\ InitConcIdle /\ InitIterIdle

Next ==
    \/ \E template \in TemplateInputs : New(template)
    \/ /\ ~alive
       /\ \E template_str \in TemplateTexts, semantics_str \in OverrideTexts :
             Parse(template_str, semantics_str)
    \/ \E key \in KeyInputs, value \in ValueInputs : Set(key, value)
    \/ \E key \in KeyInputs : Get(key)
    \/ Ref
    \/ Unref

Spec == Init /\ [][Next]_vars

\* SpecCalls: the calls of Spec on an object made by j_semantics_new, with
\* the arguments of j_semantics_set and j_semantics_get kept in the history.
NextCalls ==
    \/ \E template \in TemplateInputs : New(template)
    \/ \E key \in KeyInputs, value \in CallValues : SetCall(key, value)
    \/ \E key \in KeyInputs : GetCall(key)
    \/ Ref
    \/ Unref

SpecCalls == Init /\ [][NextCalls]_vars

InitConc ==
    /\ InitSem
    /\ InitConcIdle
    /\ InitIterIdle

NextConc ==
    \/ \E t \in Threads, template \in TemplateInputs : CNew(t, template)
    \/ \E t \in Threads : CRefInc(t)
    \/ \E t \in Threads : CRefFreeze(t)
    \/ \E t \in Threads : CUnrefDec(t)
    \/ \E t \in Threads : CUnrefFree(t)
    \/ \E t \in Threads, a \in ConcSetInputs : CSetCheck(t, a[1], a[2])
    \/ \E t \in Threads : CSetStore(t)
    \/ \E t, u \in Threads : GiveRef(t, u)

SpecConc == InitConc /\ [][NextConc]_vars

InitIter == InitSem /\ InitConcIdle /\ InitIterIdle

\* SpecIter: one thread drives one iterator at a time while clients write.
FirstIter == {i \in Iters : \A j \in Iters : i <= j}

NextIter ==
    \/ \E c \in Colls : IWrite(c)
    \/ \E i \in FirstIter, store \in StoreInputs : INewCall(i, store)
    \/ \E i \in FirstIter : INewFlush(i)
    \/ \E i \in FirstIter : INewRef(i)
    \/ \E i \in FirstIter : INewPop(i)
    \/ \E i \in FirstIter : INewFind(i)
    \/ \E i \in FirstIter : INext(i)
    \/ \E i \in FirstIter : IGet(i)
    \/ \E i \in FirstIter : IFreeDestroy(i)
    \/ \E i \in FirstIter : IFreePush(i)
    \/ \E i \in FirstIter : IFreeUnref(i)

SpecIter == InitIter /\ [][NextIter]_vars

\* SpecIterDisposed: SpecIter with a caller that goes on using an iterator
\* after j_store_iterator_free.
NextIterDisposed ==
    \/ NextIter
    \/ \E i \in FirstIter : INextDisposed(i)
    \/ \E i \in FirstIter : IGetDisposed(i)
    \/ \E i \in FirstIter : IFreeDisposed(i)

SpecIterDisposed == InitIter /\ [][NextIterDisposed]_vars

\* SpecIterConc: every thread drives an iterator of its own over the store,
\* which holds one collection from the start.
FirstColl == {c \in Colls : \A d \in Colls : c <= d}

InitIterConc ==
    /\ InitSem
    /\ InitConcIdle
    /\ store_ref = StoreBase
    /\ pool = InitPool
    /\ cache = {}
    /\ backend = FirstColl
    /\ it = [i \in Iters |-> NoIterator]
    /\ ipc = [i \in Iters |-> "none"]
    /\ ilog = [i \in Iters |-> <<>>]
    /\ pre = [i \in Iters |-> {}]
    /\ fault = [i \in Iters |-> "none"]
    /\ ret = [i \in Iters |-> "none"]
    /\ last_next = [i \in Iters |-> "none"]
    /\ got = [i \in Iters |-> NULL]
    /\ visited = [i \in Iters |-> <<>>]

NextIterConc ==
    \/ \E i \in Iters, store \in StoreInputs : INewCall(i, store)
    \/ \E i \in Iters : INewFlush(i)
    \/ \E i \in Iters : INewRef(i)
    \/ \E i \in Iters : INewPop(i)
    \/ \E i \in Iters : INewFind(i)
    \/ \E i \in Iters : INext(i)
    \/ \E i \in Iters : IGet(i)
    \/ \E i \in Iters : IFreeDestroy(i)
    \/ \E i \in Iters : IFreePush(i)
    \/ \E i \in Iters : IFreeUnref(i)

SpecIterConc == InitIterConc /\ [][NextIterConc]_vars

(***************************************************************************)
(* Claims.                                                                 *)
(***************************************************************************)
\* The descriptor has been shared: j_semantics_ref has returned at least once.
Shared == alive /\ nref >= 1

\* C1: once j_semantics_ref has been called on a descriptor made by new or
\* parse, every later j_semantics_set is refused and j_semantics_get returns,
\* for each of the six dimensions, the value held when the descriptor was
\* shared.
C1_FrozenAfterShare ==
    Shared =>
        /\ \A k \in Keys : j_semantics_get(sem, k) = snapshot[k]
        /\ res.op = "set" => res.ret = 0

\* A shared descriptor whose safety was set to storage before the share has
\* just refused a set.
C1_Witness ==
    /\ Shared
    /\ res = Result("set", 0)
    /\ snapshot[J_SEMANTICS_SAFETY] = J_SEMANTICS_SAFETY_STORAGE

\* C3: the descriptor lives as long as the caller holds a reference (the
\* creator's plus one per share, less the releases) and is freed, once, by
\* the release that brings the count to zero.
C3_FreedExactlyAtZero ==
    /\ alive => /\ HeldByCaller > 0
                /\ sem.ref_count = HeldByCaller
                /\ nfree = 0
    /\ (~alive /\ nunref > 0) => /\ HeldByCaller = 0
                                 /\ nfree = 1

\* Two shares and three releases: the third release freed the object.
C3_Witness == ~alive /\ nref = 2 /\ nunref = 3 /\ nfree = 1

\* A thread stands inside j_semantics_ref, between the increment of line 158
\* and the flag of lines 160-163.
InRefWindow == \E t \in Threads : tpc[t] = "ref_freeze"

\* C2, as claimed: in every reachable state, the states between the steps of
\* a running j_semantics_ref included, a descriptor whose ref_count is 2 or
\* more is immutable.
C2_Original == alive => (sem.ref_count >= 2 => sem.immutable)

\* C2, amended: whenever no j_semantics_ref stands between its increment and
\* its flag, a descriptor whose ref_count is 2 or more is immutable; the
\* flag, once true, stays true for the lifetime of the object, also when
\* releases bring the count back to 1; and from the moment a second
\* reference has been counted no dimension changes any more, the threads
\* calling in only with references they own.
C2_ImmutableOnceShared ==
    /\ [](alive /\ sem.ref_count >= 2 /\ ~InRefWindow => sem.immutable)
    /\ [][alive /\ alive' /\ sem.immutable => sem'.immutable]_vars
    /\ [][(alive /\ alive' /\ (sem.ref_count >= 2 \/ sem.immutable))
          => Dims(sem') = Dims(sem)]_vars

\* A descriptor shared twice, released down to one reference, still frozen,
\* has just refused a set.
C2_Witness ==
    /\ alive
    /\ nref = 2
    /\ sem.ref_count = 1
    /\ sem.immutable
    /\ res = Result("set", 0)

\* The references the threads own, and the ones a running j_semantics_ref
\* has counted and not yet returned.
RECURSIVE SumHeld(_)
SumHeld(n) == IF n = 0 THEN 0 ELSE held[n] + SumHeld(n - 1)
Owned == SumHeld(NThreads) + Cardinality({t \in Threads : tpc[t] = "ref_freeze"})

\* C4: under any interleaving of j_semantics_ref and j_semantics_unref by
\* threads that release only references they own, ref_count equals the
\* references owned (no increment or decrement is lost), the object is freed
\* at most once, by the thread whose release brought the count to zero, and
\* never while a thread still owns a reference.
C4_ConcurrentRefcount ==
    /\ nfree <= 1
    /\ alive => /\ nfree = 0
                /\ sem.ref_count = Owned
                /\ Owned = 0 => \E t \in Threads : tpc[t] = "unref_free"
    /\ (\E t \in Threads : tpc[t] = "unref_free") => alive /\ Owned = 0
    /\ (~alive /\ nunref > 0) => /\ nfree = 1
                                 /\ Owned = 0
                                 /\ AllIdle

\* Two threads were inside j_semantics_ref at once, and later the object was
\* freed after four releases.
C4_Witness == ~alive /\ nref = 3 /\ nunref = 4 /\ nfree = 1

\* The events of an iterator's history, the number of times an event occurs
\* in it, the place of its first occurrence, and the last n events.
Events(i) == {ilog[i][k] : k \in 1 .. Len(ilog[i])}
Count(i, e) == Cardinality({k \in 1 .. Len(ilog[i]) : ilog[i][k] = e})
Place(i, e) ==
    CHOOSE k \in 1 .. Len(ilog[i]) :
        ilog[i][k] = e /\ \A j \in 1 .. (k - 1) : ilog[i][j] # e
Before(i, e, f) == e \in Events(i) /\ (f \in Events(i) => Place(i, e) < Place(i, f))
LastEvents(i, n) ==
    IF Len(ilog[i]) < n THEN <<>>
    ELSE SubSeq(ilog[i], Len(ilog[i]) - n + 1, Len(ilog[i]))
Range(q) == {q[k] : k \in 1 .. Len(q)}

\* C5: the construction of an iterator over a store calls
\* j_operation_cache_flush exactly once, whatever else holds, and the flush
\* is over before the connection is taken from the pool, before the cursor is
\* opened and before the cursor first advances; no cursor operation happens
\* without the flush and then the acquisition before it.
C5_FlushOnceBeforeCursor ==
    \A i \in Iters :
        /\ Count(i, "flush") <= 1
        /\ ipc[i] \in {"ref", "pop", "find", "ready", "push", "unref"}
              => Count(i, "flush") = 1
        /\ \A e \in Events(i) \ {"flush"} : Before(i, "flush", e)
        /\ \A e \in Events(i) \cap {"find", "next", "destroy"} : Before(i, "pop", e)
        /\ \A e \in Events(i) \cap {"next", "destroy"} : Before(i, "find", e)
        /\ (it[i].connection # NULL \/ ~it[i].cursor.null) => "flush" \in Events(i)

\* The cursor of an iterator has advanced.
C5_Witness ==
    \E i \in Iters :
        /\ ilog[i] = <<"flush", "ref", "pop", "find", "next">>
        /\ last_next[i] = "true"

\* C6: every collection whose creating write the cache held when
\* j_store_iterator_new was called is among the records the iterator's
\* cursor traverses.
C6_BufferedWritesVisible ==
    \A i \in Iters :
        ~it[i].cursor.null => pre[i] \subseteq (it[i].cursor.rem \cup Range(visited[i]))

\* Every collection was buffered, and none flushed, when the iterator was
\* asked for, and the cursor has reached one of them.
C6_Witness ==
    \E i \in Iters :
        /\ ~it[i].cursor.null
        /\ pre[i] = Colls
        /\ Len(visited[i]) >= 1

\* C7, as claimed: when the acquisition of the connection or the opening of
\* the cursor fails, j_store_iterator_new reports an error: it does not
\* return an iterator.
C7_FailureReported ==
    \A i \in Iters : fault[i] # "none" => ret[i] # "iterator"

\* C8, as claimed: when an acquisition fails, the constructor has, by its
\* return, released what it had acquired: the store's reference count is
\* what it was before the call and the pool holds every handle again.
C8_NoLeakOnFailure ==
    \A i \in FirstIter :
        (fault[i] # "none" /\ ret[i] = "iterator" /\ ipc[i] = "ready")
            => store_ref = StoreBase /\ pool = InitPool

\* C9: j_store_iterator_free, whatever the iterator has done before,
\* destroys the cursor, then pushes the connection back to the pool at
\* index 0, where it came from, then releases one reference on the store;
\* once it is over, the store's reference count and the pool are what they
\* were before j_store_iterator_new.
C9_FreeReleasesInOrder ==
    \A i \in FirstIter :
        /\ ipc[i] = "push" =>
              /\ LastEvents(i, 1) = <<"destroy">>
              /\ it[i].cursor.null
              /\ \A s \in Slots : it[i].connection \notin pool[s]
              /\ store_ref = StoreBase + 1
        /\ ipc[i] = "unref" =>
              /\ LastEvents(i, 2) = <<"destroy", "push">>
              /\ it[i].connection # NULL => it[i].connection \in pool[MetaSlot]
              /\ pool = InitPool
              /\ store_ref = StoreBase + 1
        /\ (ipc[i] = "none" /\ ilog[i] # <<>>) =>
              /\ LastEvents(i, 3) = <<"destroy", "push", "unref">>
              /\ Count(i, "push") = 1
              /\ Count(i, "unref") = 1
              /\ pool = InitPool
              /\ store_ref = StoreBase

\* An iterator was built without a fault, advanced to a record, and freed
\* there.
C9_Witness ==
    \E i \in FirstIter :
        /\ ipc[i] = "none"
        /\ fault[i] = "none"
        /\ last_next[i] = "true"
        /\ ilog[i] = <<"flush", "ref", "pop", "find", "next", "destroy", "push", "unref">>

\* An iterator holds its connection from j_connection_pool_pop_meta until
\* j_connection_pool_push_meta has run.
HoldsConn(i) == it[i].connection # NULL /\ ipc[i] # "unref"

\* C10: with several iterators built, used and freed concurrently over one
\* store, no connection handle is held by two iterators, none is held by an
\* iterator and idle in the pool at once, and the store's reference count is
\* its base count plus the number of iterators that refer to the store.
C10_ExclusiveConnections ==
    /\ \A i, j \in Iters :
          (i # j /\ HoldsConn(i) /\ HoldsConn(j)) => it[i].connection # it[j].connection
    /\ \A i \in Iters :
          HoldsConn(i) => \A s \in Slots : it[i].connection \notin pool[s]
    /\ store_ref = StoreBase + Cardinality({i \in Iters : it[i].store # NULL})

\* Every thread has an open cursor on a connection of its own.
C10_Witness ==
    /\ \A i \in Iters : ipc[i] = "ready" /\ ~it[i].cursor.null /\ HoldsConn(i)
    /\ \E i, j \in Iters : it[i].connection # it[j].connection

\* C11: an iterator whose cursor was opened over a store holding n
\* collections: j_store_iterator_next returns TRUE exactly n times, each
\* time positioning a collection of the store not positioned before, and
\* then FALSE; with n = 0 the first call returns FALSE;
\* j_store_iterator_get yields the collection positioned last; and once
\* FALSE was returned every later call returns FALSE and positions nothing.
C11_EveryCollectionOnce ==
    /\ [](\A i \in FirstIter :
            (ipc[i] = "ready" /\ fault[i] = "none") =>
                /\ Cardinality(Range(visited[i])) = Len(visited[i])
                /\ Range(visited[i]) \subseteq backend
                /\ last_next[i] = "none" => visited[i] = <<>>
                /\ last_next[i] = "true" =>
                      /\ visited[i] # <<>>
                      /\ it[i].cursor.cur = visited[i][Len(visited[i])]
                /\ last_next[i] = "false" =>
                      /\ Range(visited[i]) = backend
                      /\ Len(visited[i]) = Cardinality(backend))
    /\ [][\A i \in FirstIter :
            (ipc[i] = "ready" /\ ipc'[i] = "ready" /\ fault[i] = "none") =>
                /\ (got'[i] # got[i] /\ got'[i] # NULL /\ visited[i] # <<>>)
                      => got'[i] = visited[i][Len(visited[i])]
                /\ last_next[i] = "false" =>
                      /\ last_next'[i] = "false"
                      /\ visited'[i] = visited[i]
                      /\ it'[i].cursor = it[i].cursor]_vars

\* The store holds every collection; the cursor has positioned each of them
\* and the next call has returned FALSE.
C11_Witness ==
    \E i \in FirstIter :
        /\ ipc[i] = "ready"
        /\ fault[i] = "none"
        /\ backend = Colls
        /\ Len(visited[i]) = NColls
        /\ last_next[i] = "false"

\* C12, as claimed: j_store_iterator_get materializes a collection only
\* between a j_store_iterator_next that returned TRUE and the following
\* call of it; before the first call and after FALSE it is rejected and
\* materializes nothing.
C12_GetOnlyWhileIterating ==
    \A i \in FirstIter :
        (ipc[i] = "ready" /\ fault[i] = "none" /\ last_next[i] # "true")
            => got[i] = NULL

\* C13, as claimed: once j_store_iterator_free has run on an iterator, a
\* further next, get or free on it changes no shared state: the connection
\* is pushed to the pool once and the store released once, and the store's
\* reference count and the pool stay what they were before the iterator.
C13_DisposedIsTerminal ==
    \A i \in FirstIter :
        ("unref" \in Events(i) /\ ipc[i] \in {"none", "freed_twice"}) =>
            /\ Count(i, "push") = 1
            /\ Count(i, "unref") = 1
            /\ store_ref = StoreBase
            /\ pool = InitPool

\* The template table: the six values of each template, by dimension.
TableOf(at, cc, cs, ps, sf, sc) ==
    [k \in Keys |->
        CASE k = J_SEMANTICS_ATOMICITY -> at
          [] k = J_SEMANTICS_CONCURRENCY -> cc
          [] k = J_SEMANTICS_CONSISTENCY -> cs
          [] k = J_SEMANTICS_PERSISTENCY -> ps
          [] k = J_SEMANTICS_SAFETY -> sf
          [] k = J_SEMANTICS_SECURITY -> sc]
DefaultTable ==
    TableOf(J_SEMANTICS_ATOMICITY_NONE, J_SEMANTICS_CONCURRENCY_OVERLAPPING,
            J_SEMANTICS_CONSISTENCY_IMMEDIATE, J_SEMANTICS_PERSISTENCY_EVENTUAL,
            J_SEMANTICS_SAFETY_NONE, J_SEMANTICS_SECURITY_STRICT)
PosixTable ==
    TableOf(J_SEMANTICS_ATOMICITY_OPERATION, J_SEMANTICS_CONCURRENCY_OVERLAPPING,
            J_SEMANTICS_CONSISTENCY_IMMEDIATE, J_SEMANTICS_PERSISTENCY_EVENTUAL,
            J_SEMANTICS_SAFETY_NONE, J_SEMANTICS_SECURITY_STRICT)
CheckpointTable ==
    TableOf(J_SEMANTICS_ATOMICITY_NONE, J_SEMANTICS_CONCURRENCY_NON_OVERLAPPING,
            J_SEMANTICS_CONSISTENCY_EVENTUAL, J_SEMANTICS_PERSISTENCY_EVENTUAL,
            J_SEMANTICS_SAFETY_NONE, J_SEMANTICS_SECURITY_NONE)

\* C14: j_semantics_new of each of the three templates returns an object
\* with ref_count 1, not immutable, whose six values are the template's row
\* of the table.
C14_TemplateTable ==
    (alive /\ res.op = "new") =>
        /\ res.ret = J_SEMANTICS_TEMPLATE_DEFAULT =>
              Dims(sem) = DefaultTable /\ sem.ref_count = 1 /\ ~sem.immutable
        /\ res.ret = J_SEMANTICS_TEMPLATE_POSIX =>
              Dims(sem) = PosixTable /\ sem.ref_count = 1 /\ ~sem.immutable
        /\ res.ret = J_SEMANTICS_TEMPLATE_CHECKPOINT =>
              Dims(sem) = CheckpointTable /\ sem.ref_count = 1 /\ ~sem.immutable

\* j_semantics_new(J_SEMANTICS_TEMPLATE_CHECKPOINT) has just returned.
C14_Witness ==
    /\ alive
    /\ res.op = "new"
    /\ res.ret = J_SEMANTICS_TEMPLATE_CHECKPOINT
    /\ Dims(sem) = CheckpointTable

\* C15, as claimed: j_semantics_new with a template value that is none of
\* the three templates is a fault: it does not return an ordinary object
\* (ref_count 1, mutable) that carries the values of the Default template.
C15_UnknownTemplateRefused ==
    ~ /\ alive
      /\ res.op = "new"
      /\ res.ret \notin {J_SEMANTICS_TEMPLATE_DEFAULT, J_SEMANTICS_TEMPLATE_POSIX,
                         J_SEMANTICS_TEMPLATE_CHECKPOINT}
      /\ Dims(sem) = DefaultTable
      /\ sem.ref_count = 1
      /\ ~sem.immutable

\* The row of the template table a template name selects.
TableNamed(template_str) ==
    IF template_str = <<"posix">> THEN PosixTable
    ELSE IF template_str = <<"checkpoint">> THEN CheckpointTable
    ELSE DefaultTable

\* C16: j_semantics_parse starts from the Posix template exactly for the
\* name "posix", from Checkpoint exactly for "checkpoint" and from Default
\* for every other name (empty, unknown, other case, NULL), without a fault;
\* with no override string the result has the six values of that template.
C16_TemplateByName ==
    (res.op = "parse" /\ res.ret[2] = NullStr) =>
        /\ alive
        /\ Dims(sem) = TableNamed(res.ret[1])

\* j_semantics_parse("Posix", NULL) has just returned the Default values.
C16_Witness ==
    /\ alive
    /\ res.op = "parse"
    /\ res.ret = <<(<<"Posix">>), NullStr>>
    /\ Dims(sem) = DefaultTable

\* The override grammar: the name of each dimension and the words that name
\* its values.
KeyName ==
    [k \in Keys |->
        CASE k = J_SEMANTICS_ATOMICITY -> "atomicity"
          [] k = J_SEMANTICS_CONCURRENCY -> "concurrency"
          [] k = J_SEMANTICS_CONSISTENCY -> "consistency"
          [] k = J_SEMANTICS_PERSISTENCY -> "persistency"
          [] k = J_SEMANTICS_SAFETY -> "safety"
          [] k = J_SEMANTICS_SECURITY -> "security"]
ValueWords ==
    [k \in Keys |->
        CASE k = J_SEMANTICS_ATOMICITY ->
                {<<"batch", J_SEMANTICS_ATOMICITY_BATCH>>,
                 <<"operation", J_SEMANTICS_ATOMICITY_OPERATION>>,
                 <<"none", J_SEMANTICS_ATOMICITY_NONE>>}
          [] k = J_SEMANTICS_CONCURRENCY ->
                {<<"overlapping", J_SEMANTICS_CONCURRENCY_OVERLAPPING>>,
                 <<"non-overlapping", J_SEMANTICS_CONCURRENCY_NON_OVERLAPPING>>,
                 <<"none", J_SEMANTICS_CONCURRENCY_NONE>>}
          [] k = J_SEMANTICS_CONSISTENCY ->
                {<<"immediate", J_SEMANTICS_CONSISTENCY_IMMEDIATE>>,
                 <<"eventual", J_SEMANTICS_CONSISTENCY_EVENTUAL>>,
                 <<"none", J_SEMANTICS_CONSISTENCY_NONE>>}
          [] k = J_SEMANTICS_PERSISTENCY ->
                {<<"immediate", J_SEMANTICS_PERSISTENCY_IMMEDIATE>>,
                 <<"eventual", J_SEMANTICS_PERSISTENCY_EVENTUAL>>,
                 <<"none", J_SEMANTICS_PERSISTENCY_NONE>>}
          [] k = J_SEMANTICS_SAFETY ->
                {<<"storage", J_SEMANTICS_SAFETY_STORAGE>>,
                 <<"network", J_SEMANTICS_SAFETY_NETWORK>>,
                 <<"none", J_SEMANTICS_SAFETY_NONE>>}
          [] k = J_SEMANTICS_SECURITY ->
                {<<"strict", J_SEMANTICS_SECURITY_STRICT>>,
                 <<"none", J_SEMANTICS_SECURITY_NONE>>}]

\* The tokens of an override text: the stretches between its commas.
Commas(text) == {p \in 1 .. Len(text) : text[p] = ","}
TokenCount(text) == Cardinality(Commas(text)) + 1
CommaNo(text, n) ==
    CHOOSE p \in Commas(text) : Cardinality({q \in Commas(text) : q < p}) = n - 1
Token(text, j) ==
    LET first == IF j = 1 THEN 1 ELSE CommaNo(text, j - 1) + 1
        last == IF j = TokenCount(text) THEN Len(text) ELSE CommaNo(text, j) - 1
    IN  SubSeq(text, first, last)

\* Token j of the text names dimension k with one of its value words; the
\* last such token; the value its word names.
Names(text, j, k) ==
    LET t == Token(text, j)
    IN  /\ Len(t) = 3
        /\ t[1] = KeyName[k]
        /\ t[2] = "="
        /\ \E w \in ValueWords[k] : w[1] = t[3]
Named(text, k) == \E j \in 1 .. TokenCount(text) : Names(text, j, k)
LastNaming(text, k) ==
    CHOOSE j \in 1 .. TokenCount(text) :
        /\ Names(text, j, k)
        /\ \A h \in (j + 1) .. TokenCount(text) : ~Names(text, h, k)
ValueNamed(text, k) ==
    LET word == Token(text, LastNaming(text, k))[3]
    IN  (CHOOSE w \in ValueWords[k] : w[1] = word)[2]

\* C17: j_semantics_parse applies the tokens from left to right: a dimension
\* that some token names with one of its value words ends with the value of
\* the last such token; a later token for the same key whose value is no
\* value word does not undo it.
C17_LastValidTokenWins ==
    (res.op = "parse" /\ res.ret[2] # NullStr) =>
        \A k \in Keys :
            Named(res.ret[2], k) => Dims(sem)[k] = ValueNamed(res.ret[2], k)

\* parse("default", "consistency=eventual,consistency=immediate") has
\* returned an object whose consistency is immediate.
C17_Witness ==
    /\ res.op = "parse"
    /\ res.ret = <<(<<"default">>),
                   <<"consistency", "=", "eventual", ",",
                     "consistency", "=", "immediate">>>>
    /\ Dims(sem)[J_SEMANTICS_CONSISTENCY] = J_SEMANTICS_CONSISTENCY_IMMEDIATE

\* C18: j_semantics_parse changes only the dimensions that well-formed
\* tokens name: a token without '=', with a key that is none of the six
\* names, or with a value that is no value word changes nothing and raises
\* no fault, and a dimension no token names with a value word keeps the
\* value of the selected template.
C18_OnlyNamedDimensionsChange ==
    (res.op = "parse" /\ res.ret[2] # NullStr) =>
        /\ alive
        /\ \A k \in Keys :
              ~Named(res.ret[2], k) => Dims(sem)[k] = TableNamed(res.ret[1])[k]

\* parse("posix", "atomicity=batch,safety=storage") has returned the Posix
\* values but for atomicity and safety.
C18_Witness ==
    /\ res.op = "parse"
    /\ res.ret = <<(<<"posix">>),
                   <<"atomicity", "=", "batch", ",", "safety", "=", "storage">>>>
    /\ Dims(sem) = [PosixTable EXCEPT
                       ![J_SEMANTICS_ATOMICITY] = J_SEMANTICS_ATOMICITY_BATCH,
                       ![J_SEMANTICS_SAFETY] = J_SEMANTICS_SAFETY_STORAGE]

\* C19: j_semantics_parse never freezes its result: for every template name
\* and every override text the object returned has ref_count 1 and is not
\* immutable, and a j_semantics_set called on it next stores its value.
C19_ParseLeavesMutable ==
    /\ [](res.op = "parse" => alive /\ sem.ref_count = 1 /\ ~sem.immutable)
    /\ [][(res.op = "parse" /\ res'.op = "set") => res'.ret = 1]_vars

\* j_semantics_parse("checkpoint", "persistency=immediate") has just
\* returned: the override was stored and the object is unshared and mutable.
C19_Witness ==
    /\ alive
    /\ res.op = "parse"
    /\ res.ret = <<(<<"checkpoint">>), <<"persistency", "=", "immediate">>>>
    /\ sem.persistency = J_SEMANTICS_PERSISTENCY_IMMEDIATE
    /\ sem.ref_count = 1
    /\ ~sem.immutable

\* The values of each dimension's enumeration.
Enumeration(k) == {w[2] : w \in ValueWords[k]}

\* C20, as claimed: whatever calls were made on a live object, each of its
\* six dimensions holds a value of its own enumeration; j_semantics_set
\* stores no value from outside the enumeration of the dimension it names.
C20_ValuesWithinEnumerations ==
    alive => \A k \in Keys : Dims(sem)[k] \in Enumeration(k)

\* C21: on a mutable object j_semantics_set(d, key, value) makes
\* j_semantics_get(d, key) return value and leaves the five other
\* dimensions, the immutable flag and ref_count as they were; with a key
\* that is none of the six it changes nothing; j_semantics_get changes no
\* field, returns the value of the dimension its key names, and returns -1
\* for a key that is none of the six.
C21_SetGetFrame ==
    /\ []((alive /\ res.op = "set" /\ res.ret = 1 /\ res.args[1] \in Keys)
            => j_semantics_get(sem, res.args[1]) = res.args[2])
    /\ []((alive /\ res.op = "get")
            => res.ret = IF res.args[1] \in Keys THEN Dims(sem)[res.args[1]]
                         ELSE -1)
    /\ [][(alive /\ res'.op = "set") =>
            /\ sem'.immutable = sem.immutable
            /\ sem'.ref_count = sem.ref_count
            /\ \A k \in Keys \ {res'.args[1]} : Dims(sem')[k] = Dims(sem)[k]]_vars
    /\ [][(alive /\ res'.op = "get") => sem' = sem]_vars

\* j_semantics_set(d, J_SEMANTICS_SAFETY, J_SEMANTICS_SAFETY_NETWORK) on a
\* fresh Checkpoint object has stored its value and nothing else.
C21_Witness ==
    /\ alive
    /\ res.op = "set"
    /\ res.ret = 1
    /\ res.args = <<J_SEMANTICS_SAFETY, J_SEMANTICS_SAFETY_NETWORK>>
    /\ Dims(sem) = [CheckpointTable EXCEPT
                       ![J_SEMANTICS_SAFETY] = J_SEMANTICS_SAFETY_NETWORK]
    /\ sem.ref_count = 1
    /\ ~sem.immutable

====
